---- MODULE Spec2Model ----
(***************************************************************************)
(* The interview session store (src/store/interview-store.ts) and the      *)
(* orchestrating component (src/components/interviewee-chat.tsx) with the  *)
(* welcome-back modal, as one state machine.                               *)
(*                                                                         *)
(* Strings stand for texts: "" is the empty string, " " a whitespace-only  *)
(* string, "(no answer)" the literal of handleStopAndSend, and "s1", "s2"  *)
(* ... content first produced in session 1, 2, ... (a session ends with    *)
(* resetSession).  An optional field that is absent holds NoStr / NoScore. *)
(* Array indices are the source's (0-based); sequences are 1-based, so     *)
(* questions[idx] of the source is questions[idx + 1] here.                *)
(***************************************************************************)
EXTENDS Integers, Sequences, FiniteSets, TLC

VARIABLES
  store,     \* the zustand store: candidate, status, messages, questions, currentIndex, startedAt, durationSec, lastSession
  ui,        \* React state of IntervieweeChat and WelcomeBackModal
  env,       \* browser services: speech synthesis, recognition, media recorder, wall clock
  pend,      \* asynchronous work in flight: requests, deferred commits, timeouts
  closures,  \* values captured by the memoized callbacks of the last render
  hist       \* history: session number and event counters (not program state)

vars == <<store, ui, env, pend, closures, hist>>

----------------------------------------------------------------------------
(* Bounds of the model *)

\* Spec: one interview from upload to summary
MaxUser == 1        \* discretionary user events per run (typing, edits, extra buttons)
MaxSubmits == 6     \* handleStopAndSend invocations that pass the status guard, per run
MaxInflight == 1    \* handleStopAndSend invocations awaiting a response at once
MaxStarts == 1      \* handleStart invocations per run
MaxSessions == 1    \* sessions per run (resetSession calls + 1)

\* SpecRace: submissions that overlap
RaceInflight == 2
RaceSubmits == 3

\* SpecAudio: answers given by voice and by keyboard, with the recorded audio
AudioUser == 2
AudioHeard == 1     \* recognition results per run
AudioInflight == 2
AudioSubmits == 2
AudioStarts == 2

\* SpecReset: reset, reload and a second upload
ResetSessions == 2
ResetReloads == 1
ResetSubmits == 1
ResetStarts == 2

\* SpecFail: requests and services that fail
MaxFailures == 1    \* failed requests and capability errors per run
FailSubmits == 2

\* SpecStore: the operations of the store called in any order
StoreOps == 3
StoreSessions == 2
StoreUser == 1

\* SpecTimer: the longest time followed after startedAt, in ms
MaxElapsed == 125000

\* SpecGenerate: the interview with the generated questions set one by one
GenSubmits == 2

\* SpecLive: a whole interview with one failure, under fairness
LiveFailures == 1
LiveSubmits == 7

\* SpecRoutes: the questions whose evaluation is requested and committed
RouteSubmits == 2

\* SpecFinal: the sixth question submitted twice, one request failing
FinalFailures == 1
FinalSubmits == 7
FinalInflight == 2

\* SpecLength: the items of a generate-questions response, and the questions submitted
MinItems == 5
MaxItems == 7
LengthSubmits == 2

\* SpecIntake: uploads that are refused or fail, and edits of the profile
IntakeUser == 2
IntakeFailures == 1
IntakeSubmits == 1

----------------------------------------------------------------------------
(* Program constants *)

NumQuestions == 6
Null == 0
NoScore == -1
NoStr == "undefined"
NoAnswerText == "(no answer)"
NoFeedbackText == "No feedback available."
DefaultSummary == "Candidate completed the interview."

difficultiesSequence == <<"easy", "easy", "medium", "medium", "hard", "hard">>

SessionText == <<"s1", "s2", "s3", "s4">>

Truthy(v) == v # "" /\ v # NoStr

Trim(v) == IF v = " " THEN "" ELSE v

\* values of Date.now() at startQuestion, ms passed when the page shows the timer,
\* and ms between two ticks of the 250 ms interval
TimerStarts == {1, 1750}

TimerElapsed == {0, 25000}

TickDelays == {250, 1300}

DurationOf(idx) ==
  LET difficulty == IF idx < Len(difficultiesSequence) THEN difficultiesSequence[idx + 1] ELSE NoStr
  IN IF difficulty = "easy" THEN 20 ELSE IF difficulty = "medium" THEN 60 ELSE 120

----------------------------------------------------------------------------
(* The store: initial state and operations, as functions of the store s *)

EmptyCandidate == [name |-> "", email |-> "", phone |-> ""]

InitialQuestions ==
  [i \in 1..NumQuestions |->
     [text |-> "", difficulty |-> difficultiesSequence[i],
      answer |-> NoStr, score |-> NoScore, feedback |-> NoStr, ses |-> 0, n |-> 0]]

InitialLive(s) ==
  [s EXCEPT !.candidate = EmptyCandidate, !.status = "idle", !.messages = <<>>,
            !.questions = InitialQuestions, !.currentIndex = 0,
            !.startedAt = Null, !.durationSec = Null]

InitialStore ==
  [candidate |-> EmptyCandidate, status |-> "idle", messages |-> <<>>,
   questions |-> InitialQuestions, currentIndex |-> 0,
   startedAt |-> Null, durationSec |-> Null, lastSession |-> <<>>]

setCandidate(s, profile) == [s EXCEPT !.candidate = profile]

setStatusReady(s, s2) == [s EXCEPT !.status = "ready"]

setStatus(s, s2) == [s EXCEPT !.status = s2]

\* a pushMessage that puts the new message first
pushMessageFirst(s, m) == [s EXCEPT !.messages = <<m>> \o @]

pushMessage(s, m) == [s EXCEPT !.messages = Append(@, m)]

Msg(role, text, ses) == [role |-> role, text |-> text, ses |-> ses]

setQuestion(s, idx, q) ==
  IF idx < Len(s.questions)
    THEN [s EXCEPT !.questions[idx + 1].text = q.text,
                   !.questions[idx + 1].difficulty = q.difficulty]
    ELSE [s EXCEPT !.questions =
            Append(@, [text |-> q.text, difficulty |-> q.difficulty,
                       answer |-> NoStr, score |-> NoScore, feedback |-> NoStr, ses |-> 0, n |-> 0])]

startQuestion(s, duration) ==
  [s EXCEPT !.status = "in_progress", !.startedAt = 1, !.durationSec = duration]

\* { ...arr[idx], ...patch }: a key the patch does not hold (NoStr, NoScore) keeps
\* its value; ses and n record the session of the patch and how many patches landed
Merge(q, patch) ==
  [q EXCEPT !.answer = IF patch.answer = NoStr THEN @ ELSE patch.answer,
            !.score = IF patch.score = NoScore THEN @ ELSE patch.score,
            !.feedback = IF patch.feedback = NoStr THEN @ ELSE patch.feedback,
            !.ses = patch.ses, !.n = @ + 1]

\* qs.map((q, i) => ({ text: q.text || s.questions[i]?.text || "", difficulty: ... })):
\* the new entries hold a text and a difficulty only
setQuestionsBulk(s, qs) ==
  [s EXCEPT !.questions =
     [i \in 1..Len(qs) |->
        [text |-> IF Truthy(qs[i].text) THEN qs[i].text
                  ELSE IF i <= Len(s.questions) /\ Truthy(s.questions[i].text) THEN s.questions[i].text
                  ELSE "",
         difficulty |-> IF Truthy(qs[i].difficulty) THEN qs[i].difficulty
                        ELSE IF i <= Len(s.questions) THEN s.questions[i].difficulty
                        ELSE NoStr,
         answer |-> NoStr, score |-> NoScore, feedback |-> NoStr, ses |-> 0, n |-> 0]]]

updateQuestionResultAdvances(s, idx, patch) ==
  [s EXCEPT !.questions[idx + 1] = Merge(@, patch), !.currentIndex = idx + 1]

updateQuestionResultPatchesArchive(s, idx, patch) ==
  [s EXCEPT !.questions[idx + 1] = Merge(@, patch),
            !.lastSession = IF @ = <<>> THEN @
                            ELSE <<[@[1] EXCEPT !.questions[idx + 1].score =
                                      IF patch.score = NoScore THEN @ ELSE patch.score]>>]

updateQuestionResult(s, idx, patch) ==
  [s EXCEPT !.questions[idx + 1] = Merge(@, patch)]

completeQuestionNeverCompletes(s, idx, patch) ==
  [s EXCEPT !.questions[idx + 1] = Merge(@, patch), !.currentIndex = idx + 1,
            !.startedAt = Null, !.durationSec = Null, !.status = "in_progress"]

\* the set() of completeQuestion; patch = [answer, score, feedback, ses]
completeQuestionSet(s, idx, patch) ==
  LET arr == [s.questions EXCEPT ![idx + 1] = Merge(@, patch)]
      nextIndex == idx + 1
  IN [s EXCEPT !.questions = arr, !.currentIndex = nextIndex,
               !.startedAt = Null, !.durationSec = Null,
               !.status = IF nextIndex >= Len(arr) THEN "completed" ELSE "in_progress"]

resetSessionDropsArchive(s) == [InitialLive(s) EXCEPT !.lastSession = <<>>]

resetSession(s) == InitialLive(s)

finalizeSessionDropsTranscript(s, finalScore, summary) ==
  [s EXCEPT !.lastSession =
              <<[name |-> s.candidate.name, email |-> s.candidate.email, phone |-> s.candidate.phone,
                 finalScore |-> finalScore, summary |-> summary,
                 questions |-> [i \in 1..Len(s.questions) |->
                    [question |-> s.questions[i].text, difficulty |-> s.questions[i].difficulty,
                     answer |-> IF Truthy(s.questions[i].answer) THEN s.questions[i].answer ELSE "",
                     score |-> IF s.questions[i].score = NoScore THEN 0 ELSE s.questions[i].score,
                     feedback |-> IF Truthy(s.questions[i].feedback) THEN s.questions[i].feedback ELSE ""]],
                 transcript |-> <<>>]>>,
            !.status = "completed", !.startedAt = Null, !.durationSec = Null]

finalizeSession(s, finalScore, summary) ==
  LET completed ==
        [name |-> s.candidate.name, email |-> s.candidate.email, phone |-> s.candidate.phone,
         finalScore |-> finalScore, summary |-> summary,
         questions |-> [i \in 1..Len(s.questions) |->
            [question |-> s.questions[i].text, difficulty |-> s.questions[i].difficulty,
             answer |-> IF Truthy(s.questions[i].answer) THEN s.questions[i].answer ELSE "",
             score |-> IF s.questions[i].score = NoScore THEN 0 ELSE s.questions[i].score,
             feedback |-> IF Truthy(s.questions[i].feedback) THEN s.questions[i].feedback ELSE ""]],
         transcript |-> s.messages]
  IN [s EXCEPT !.lastSession = <<completed>>, !.status = "completed",
               !.startedAt = Null, !.durationSec = Null]

----------------------------------------------------------------------------
(* The component: React state, browser services, work in flight *)

\* remaining: the seconds the timer shows (<<>> is null), followed in SpecTimer
InitialUi ==
  [transcript |-> "", userInput |-> "", recording |-> FALSE, isSpeaking |-> FALSE,
   currentAudioBlob |-> FALSE, isRecordingAudio |-> FALSE, hasResume |-> FALSE,
   editableCandidate |-> EmptyCandidate, uploading |-> FALSE, modalOpen |-> FALSE,
   remaining |-> <<>>]

\* gen: the forEach of generateAllQuestions in progress, if any
\* route: the request an API route is working on or has answered, if any
NoPending ==
  [uploads |-> 0, starts |-> {}, tasks |-> {}, commits |-> {}, timeouts |-> {}, gen |-> <<>>,
   route |-> <<>>]

\* an utterance given to speak(): its kind and what its onEnd callback captured
\* (next: the index of the question its timer is for)
Utterance(kind, duration, text, speaking, next) ==
  [kind |-> kind, duration |-> duration, text |-> text, speaking |-> speaking, next |-> next]

Plain == Utterance("plain", Null, "", FALSE, 0)

\* speak(): cancel() drops the utterance in progress (its onend does not fire), then the new one starts
speak(w, u) == [w EXCEPT !.env.utter = <<u>>]

\* what the memoized handleStopAndSend of a render sees: its dependencies, and
\* the values of non-dependencies as they were when it was last re-created
Snapshot(s, u, stale, ses) ==
  [status |-> s.status, idx |-> s.currentIndex, qs |-> s.questions, transcript |-> u.transcript,
   blob |-> stale.blob, recAudio |-> stale.recAudio, speaking |-> stale.speaking, ses |-> ses]

StaleOf(u) ==
  [blob |-> u.currentAudioBlob, recAudio |-> u.isRecordingAudio, speaking |-> u.isSpeaking]

canStart(s) == Truthy(s.candidate.name) /\ Truthy(s.candidate.email) /\ Truthy(s.candidate.phone)

currentText(s) ==
  IF s.currentIndex < Len(s.questions) THEN s.questions[s.currentIndex + 1].text ELSE NoStr

currentAnswered(s) ==
  s.currentIndex < Len(s.questions) /\ Truthy(s.questions[s.currentIndex + 1].answer)

stopRecognition(w) == [w EXCEPT !.env.recActive = FALSE, !.ui.recording = FALSE]

\* stopAudioRecording as memoized with isRecordingAudio = recAudio
stopAudioRecording(w, recAudio) ==
  IF w.env.recorder = "recording" /\ recAudio
    THEN [w EXCEPT !.env.recorder = "inactive", !.env.onstopPending = TRUE]
    ELSE w

\* startRecognition is memoized once (deps [pushMessage]): its isSpeaking is the
\* first render's FALSE, so its guard never returns.  micOk: getUserMedia resolves.
startRecognition(w, micOk, ses) ==
  LET w1 == [w EXCEPT !.env.recActive = FALSE]
  IN IF ~w.env.canRecognize
       THEN speak([w1 EXCEPT !.store = pushMessage(@, Msg("system", "Microphone access is required.", ses))],
                  Plain)
       ELSE [w1 EXCEPT !.ui.transcript = "", !.ui.recording = TRUE,
                       !.ui.isRecordingAudio = micOk,
                       !.env.recorder = IF micOk THEN "recording" ELSE @,
                       !.env.recActive = TRUE]

\* speakQuestionThenListen as memoized with questions[currentIndex].text = text, isSpeaking = speaking
speakQuestionThenListen(w, text, speaking) ==
  IF ~Truthy(text) THEN w
  ELSE speak([w EXCEPT !.env.recActive = FALSE, !.ui.recording = FALSE, !.ui.isSpeaking = TRUE],
             Utterance("question", Null, "", speaking, 0))

\* handleStopAndSend(auto) of the render snap, up to its first await; id names the invocation
handleStopAndSend(w, auto, snap, id) ==
  IF snap.status # "in_progress" THEN w
  ELSE
    LET w1 == stopAudioRecording(stopRecognition(w), snap.recAudio)
        hasQ == snap.idx < Len(snap.qs) /\ Truthy(snap.qs[snap.idx + 1].text)
        userAnswer == IF auto /\ ~Truthy(snap.transcript) THEN NoAnswerText ELSE snap.transcript
        w2 == [w1 EXCEPT !.ui.transcript = ""]
        w3 == IF auto
                THEN speak([w2 EXCEPT !.store = pushMessage(@, Msg("assistant", "Time's up.", snap.ses))],
                           Plain)
                ELSE w2
        task == [id |-> id, pc |-> "evaluate", auto |-> auto, idx |-> snap.idx, qs |-> snap.qs,
                 answer |-> userAnswer, blob |-> snap.blob, speaking |-> snap.speaking,
                 ses |-> snap.ses, finalScore |-> 0]
    IN IF ~hasQ
         THEN [w1 EXCEPT !.store = pushMessage(@, Msg("system", "Error: No question available.", snap.ses))]
         ELSE [w3 EXCEPT !.store = pushMessage(@, Msg("user", userAnswer, snap.ses)),
                         !.pend.tasks = @ \cup {task}]

\* whether handleStopAndSend(snap) gets past its guards and starts a request
Submits(snap) ==
  /\ snap.status = "in_progress"
  /\ snap.idx < Len(snap.qs)
  /\ Truthy(snap.qs[snap.idx + 1].text)

RECURSIVE SumScores(_, _, _, _)
SumScores(qs, i, idx, score) ==
  IF i > Len(qs) THEN 0
  ELSE (IF i = idx + 1 THEN score
        ELSE IF qs[i].score = NoScore THEN 0 ELSE qs[i].score)
       + SumScores(qs, i + 1, idx, score)

\* Math.round(sum / n) for sum >= 0
RoundDiv(sum, n) == (2 * sum + n) \div (2 * n)

Min(a, b) == IF a < b THEN a ELSE b

Max(a, b) == IF a > b THEN a ELSE b

\* Math.round of a number counted in halves (15 is 7.5)
Round(halves) == (halves + 1) \div 2

\* handleStopAndSend: the score and the feedback taken from the evaluate response
\* (ok: res.ok; score: data.score in halves)
scoreOf(ok, score) == IF ok THEN Max(0, Min(10, Round(score))) ELSE 0

feedbackOf(ok, feedback) == IF ok /\ Truthy(feedback) THEN feedback ELSE NoFeedbackText

\* handleStopAndSend after the evaluate response r = [ok, score, feedback]
afterEvaluate(w, t, r) ==
  LET score == scoreOf(r.ok, r.score)
      feedback == feedbackOf(r.ok, r.feedback)
      patch == [answer |-> t.answer, score |-> score, feedback |-> feedback, ses |-> t.ses]
      \* completeQuestion: with an audio blob the set() waits for blobToDataUrl
      w1 == IF t.blob
              THEN [w EXCEPT !.pend.commits = @ \cup {[id |-> t.id, idx |-> t.idx, patch |-> patch]}]
              ELSE [w EXCEPT !.store = completeQuestionSet(@, t.idx, patch)]
      w2 == speak([w1 EXCEPT !.ui.currentAudioBlob = FALSE,
                             !.store = pushMessage(@, Msg("assistant", "Feedback", t.ses)),
                             !.pend.tasks = @ \ {t}],
                  Plain)
      nextIdx == t.idx + 1
      finalScore == RoundDiv(SumScores(t.qs, 1, t.idx, score), Len(t.qs))
  IN IF nextIdx >= Len(t.qs)
       THEN [w2 EXCEPT !.pend.tasks = @ \cup {[t EXCEPT !.pc = "summary", !.finalScore = finalScore]}]
     ELSE IF ~Truthy(t.qs[nextIdx + 1].text)
       THEN speak([w2 EXCEPT !.store = pushMessage(@, Msg("system", "Trouble finding the next question.", t.ses))],
                  Plain)
     ELSE speak([w2 EXCEPT !.ui.isSpeaking = TRUE],
                Utterance("transition", DurationOf(nextIdx), t.qs[t.idx + 1].text, t.speaking, nextIdx))

\* handleStopAndSend after the summary response
afterSummary(w, t, ok) ==
  LET summary == IF ok THEN "summary" ELSE DefaultSummary
  IN speak([w EXCEPT !.store = pushMessage(finalizeSession(@, t.finalScore, summary),
                                           Msg("assistant", "Interview completed.", t.ses)),
                     !.pend.tasks = @ \ {t}],
           Plain)

----------------------------------------------------------------------------
(* State transitions *)

World == [store |-> store, ui |-> ui, env |-> env, pend |-> pend]

\* now: Date.now() in ms, followed in SpecTimer; elsewhere timeUp says whether the
\* current question's time is over
InitialEnv(canRecognize) ==
  [utter |-> <<>>, recActive |-> FALSE, recorder |-> "inactive", onstopPending |-> FALSE,
   timeUp |-> FALSE, canRecognize |-> canRecognize, now |-> 0]

\* the store operation called last, with its arguments (none yet)
NoCall == [op |-> "", idx |-> 0, arg |-> <<>>]

\* the events a run may contain: each specification starts with its own allowance
Allowance(user, fail, heard, submits, inflight, starts, sessions, reloads, ops) ==
  [user |-> user, fail |-> fail, heard |-> heard, submits |-> submits, inflight |-> inflight,
   starts |-> starts, sessions |-> sessions, reloads |-> reloads, ops |-> ops]

InitWith(max) ==
  /\ store = InitialStore
  /\ ui = InitialUi
  /\ env = InitialEnv(TRUE)
  /\ pend = NoPending
  /\ closures = [hs |-> StaleOf(InitialUi),
                 tick |-> Snapshot(InitialStore, InitialUi, StaleOf(InitialUi), 1),
                 startSpeaking |-> FALSE]
  /\ hist = [session |-> 1, nSubmits |-> 0, nStarts |-> 0, nUser |-> 0, nFail |-> 0, nHeard |-> 0,
             nReloads |-> 0, nOps |-> 0, uploadedSes |-> 0, timerFor |-> 0, last |-> NoCall, max |-> max]

Init == InitWith(Allowance(MaxUser, 0, 0, MaxSubmits, MaxInflight, MaxStarts, MaxSessions, 0, 0))

\* WelcomeBackModal: mounted while status is collecting or in_progress (page.tsx),
\* its effect opens it on mount and whenever status changes
modalAfter(oldStatus, newStatus, open) ==
  IF newStatus \notin {"collecting", "in_progress"} THEN FALSE
  ELSE IF newStatus # oldStatus THEN TRUE
  ELSE open

\* The render that follows a handler: prev is the store of the previous render,
\* w is the world the handler left, touch says
\* that a dependency of handleStopAndSend got a new identity, eff that the timer
\* effect's startedAt got a new value; h is the history after the step.
RenderFrom(prev, w, touch, eff, h) ==
  LET sN == w.store
      uN == [w.ui EXCEPT !.modalOpen = modalAfter(prev.status, sN.status, @)]
      hsChanged == \/ touch
                   \/ <<sN.status, sN.questions, sN.currentIndex, uN.transcript, sN.candidate, sN.messages>>
                      # <<prev.status, prev.questions, prev.currentIndex, ui.transcript, prev.candidate, prev.messages>>
      hsN == IF hsChanged THEN StaleOf(uN) ELSE closures.hs
      effChanged == \/ eff
                    \/ <<sN.status, sN.startedAt, sN.durationSec, sN.currentIndex>>
                       # <<prev.status, prev.startedAt, prev.durationSec, prev.currentIndex>>
      tickN == IF effChanged THEN Snapshot(sN, uN, hsN, h.session) ELSE closures.tick
      startChanged == \/ canStart(sN) # canStart(store)
                      \/ sN.candidate.name # prev.candidate.name
                      \/ sN.currentIndex # prev.currentIndex
                      \/ currentText(sN) # currentText(store)
      startN == IF startChanged THEN uN.isSpeaking ELSE closures.startSpeaking
  IN /\ store' = sN
     /\ ui' = uN
     /\ env' = [w.env EXCEPT !.timeUp = IF sN.startedAt = Null THEN FALSE ELSE @]
     /\ pend' = w.pend
     /\ closures' = [hs |-> hsN, tick |-> tickN, startSpeaking |-> startN]
     /\ hist' = h

Render(w, touch, eff, h) == RenderFrom(store, w, touch, eff, h)

User == [hist EXCEPT !.nUser = @ + 1]

\* the history after an outcome: a failure counts against MaxFailures
Outcome(h, ok) == IF ok THEN h ELSE [h EXCEPT !.nFail = @ + 1]

MayFail(ok) == ok \/ hist.nFail < hist.max.fail

CurSnap == Snapshot(store, ui, closures.hs, hist.session)

detailsVisible ==
  ui.hasResume \/ store.status = "collecting" \/ (~canStart(store) /\ store.status # "completed")

questionPanelVisible == Len(store.questions) > 0 /\ store.status # "completed"

startResetVisible == store.status \notin {"in_progress", "completed"}

\* onUpload up to its fetch; a file of another type is refused with a spoken error
OnUpload(valid) ==
  /\ ~ui.hasResume
  /\ IF valid
       THEN /\ pend.uploads = 0
            /\ Render([World EXCEPT !.ui.uploading = TRUE, !.pend.uploads = @ + 1], FALSE, FALSE, hist)
       ELSE /\ hist.nUser < hist.max.user
            /\ Render(speak(World, Plain), FALSE, FALSE,
                      [User EXCEPT !.last = [op |-> "onUpload", idx |-> hist.nUser, arg |-> <<valid>>]])

ExtractedProfiles(d) ==
  { [name |-> d, email |-> d, phone |-> d],
    [name |-> d, email |-> d, phone |-> ""],
    [name |-> "", email |-> "", phone |-> ""] }

\* onUpload after the extract response
ExtractResponse(ok, ext) ==
  /\ pend.uploads > 0
  /\ MayFail(ok)
  /\ LET w0 == [World EXCEPT !.ui.uploading = FALSE, !.pend.uploads = @ - 1]
         complete == Truthy(ext.name) /\ Truthy(ext.email) /\ Truthy(ext.phone)
         s1 == pushMessage(setCandidate(store, ext), Msg("system", "Resume uploaded.", hist.session))
         s2 == pushMessage(setStatus(s1, IF complete THEN "ready" ELSE "collecting"),
                           Msg("assistant", IF complete THEN "Your details look complete." ELSE "Information is missing.",
                               hist.session))
     IN IF ok
          THEN Render([w0 EXCEPT !.store = s2, !.ui.editableCandidate = ext, !.ui.hasResume = TRUE],
                      TRUE, FALSE, [hist EXCEPT !.uploadedSes = hist.session])
          ELSE Render(w0, FALSE, FALSE, Outcome(hist, FALSE))

HandleCandidateChange(field, value) ==
  /\ detailsVisible
  /\ hist.nUser < hist.max.user
  /\ ui.editableCandidate[field] # value
  /\ Render([World EXCEPT !.ui.editableCandidate[field] = value], FALSE, FALSE, User)

HandleSaveProfile ==
  /\ detailsVisible
  /\ ~ui.uploading
  /\ hist.nUser < hist.max.user
  /\ LET e == ui.editableCandidate
         complete == Truthy(e.name) /\ Truthy(e.email) /\ Truthy(e.phone)
         s1 == setCandidate(store, [name |-> Trim(e.name), email |-> Trim(e.email), phone |-> Trim(e.phone)])
     IN Render(speak([World EXCEPT !.store = setStatus(s1, IF complete THEN "ready" ELSE "collecting")], Plain),
               TRUE, FALSE, User)

\* the Reset button of the Start & Reset controls
ResetClick ==
  /\ startResetVisible
  /\ hist.session < hist.max.sessions
  /\ Render([World EXCEPT !.store = resetSession(@)], TRUE, FALSE, [hist EXCEPT !.session = @ + 1])

\* the modal's Start Over button: resetSession(); setOpen(false)
StartOverClick ==
  /\ ui.modalOpen
  /\ hist.session < hist.max.sessions
  /\ Render([World EXCEPT !.store = resetSession(@), !.ui.modalOpen = FALSE],
            TRUE, FALSE, [hist EXCEPT !.session = @ + 1])

\* the modal's Resume Interview button: setStatus(status); setOpen(false)
ResumeClick ==
  /\ ui.modalOpen
  /\ hist.nUser < hist.max.user
  /\ Render([World EXCEPT !.store = setStatus(@, store.status), !.ui.modalOpen = FALSE],
            FALSE, FALSE, User)

\* handleStart up to its await of generateAllQuestions
HandleStart ==
  /\ startResetVisible
  /\ ui.hasResume /\ canStart(store) /\ ~ui.uploading
  /\ hist.nStarts < hist.max.starts
  /\ LET inv == [id |-> hist.nStarts + 1, idx |-> store.currentIndex, text |-> currentText(store),
                 speaking |-> closures.startSpeaking, ses |-> hist.session]
         w1 == speak([World EXCEPT !.store = pushMessage(@, Msg("assistant", "You'll be asked 6 questions.", hist.session)),
                                   !.pend.starts = @ \cup {inv}],
                     Plain)
     IN Render(w1, FALSE, FALSE, [hist EXCEPT !.nStarts = @ + 1])

DifficultyAnswers ==
  { difficultiesSequence, <<"hard", "hard", "medium", "medium", "easy", "easy">> }

RECURSIVE setQuestions(_, _, _, _)
setQuestions(s, text, diffs, i) ==
  IF i > Len(diffs) THEN s
  ELSE setQuestions(setQuestion(s, i - 1, [text |-> text, difficulty |-> diffs[i]]), text, diffs, i + 1)

startQuestionNow(w, duration) ==
  [w EXCEPT !.store = startQuestion(@, duration), !.env.timeUp = FALSE]

\* handleStart after the generate-questions response (ok: six questions of the schema)
GenerateResponse(inv, ok, diffs) ==
  /\ inv \in pend.starts
  /\ MayFail(ok)
  /\ LET w0 == [World EXCEPT !.pend.starts = @ \ {inv}]
     IN IF ok
          THEN LET w1 == [w0 EXCEPT !.store = setQuestions(@, SessionText[inv.ses], diffs, 1)]
                   w2 == startQuestionNow(w1, DurationOf(inv.idx))
                   t == [kind |-> "first", duration |-> Null, text |-> inv.text, speaking |-> inv.speaking,
                         next |-> inv.idx]
               IN Render([w2 EXCEPT !.pend.timeouts = @ \cup {t}], TRUE, TRUE,
                         [hist EXCEPT !.timerFor = inv.idx])
          ELSE Render(speak([w0 EXCEPT !.store = pushMessage(@, Msg("system", "Trouble generating questions.", inv.ses))],
                            Plain),
                      FALSE, FALSE, Outcome(hist, FALSE))

\* generateAllQuestions receives six questions of the schema: its forEach begins
QuestionsArrive(inv, diffs) ==
  /\ inv \in pend.starts
  /\ pend.gen = <<>>
  /\ pend' = [pend EXCEPT !.starts = @ \ {inv},
                          !.gen = <<[inv |-> inv, diffs |-> diffs, at |-> 0, before |-> store]>>]
  /\ UNCHANGED <<store, ui, env, closures, hist>>

\* one turn of the forEach: setQuestion(idx, { text: q.question, difficulty: q.difficulty })
SetNextQuestion ==
  /\ pend.gen # <<>>
  /\ pend.gen[1].at < Len(pend.gen[1].diffs)
  /\ LET g == pend.gen[1]
     IN /\ store' = setQuestion(store, g.at, [text |-> SessionText[g.inv.ses], difficulty |-> g.diffs[g.at + 1]])
        /\ pend' = [pend EXCEPT !.gen = <<[g EXCEPT !.at = @ + 1]>>]
  /\ UNCHANGED <<ui, env, closures, hist>>

\* the forEach is over: handleStart goes on with startQuestion and the first question
QuestionsApplied ==
  /\ pend.gen # <<>>
  /\ pend.gen[1].at = Len(pend.gen[1].diffs)
  /\ LET g == pend.gen[1]
         w2 == startQuestionNow([World EXCEPT !.pend.gen = <<>>], DurationOf(g.inv.idx))
         t == [kind |-> "first", duration |-> Null, text |-> g.inv.text, speaking |-> g.inv.speaking,
               next |-> g.inv.idx]
     IN RenderFrom(g.before, [w2 EXCEPT !.pend.timeouts = @ \cup {t}], TRUE, TRUE,
                   [hist EXCEPT !.timerFor = g.inv.idx])

\* a setTimeout callback runs
TimeoutFires(t, micOk) ==
  /\ t \in pend.timeouts
  /\ MayFail(micOk)
  /\ LET w0 == [World EXCEPT !.pend.timeouts = @ \ {t}]
     IN CASE t.kind = "first" ->
               /\ micOk
               /\ Render(speakQuestionThenListen(w0, t.text, t.speaking), FALSE, FALSE, hist)
          [] t.kind = "startq" ->
               /\ micOk
               /\ Render(speakQuestionThenListen(startQuestionNow(w0, t.duration), t.text, t.speaking),
                         FALSE, TRUE, [hist EXCEPT !.timerFor = t.next])
          [] t.kind = "listen" ->
               IF t.speaking
                 THEN micOk /\ Render(w0, FALSE, FALSE, hist)
                 ELSE Render(startRecognition(w0, micOk, hist.session), FALSE, FALSE, Outcome(hist, micOk))

\* the utterance in progress ends: its onEnd callback runs
SpeechEnd ==
  /\ env.utter # <<>>
  /\ LET u == env.utter[1]
         w0 == [World EXCEPT !.env.utter = <<>>]
     IN CASE u.kind = "plain" -> Render(w0, FALSE, FALSE, hist)
          [] u.kind = "question" ->
               Render([w0 EXCEPT !.ui.isSpeaking = FALSE,
                                 !.pend.timeouts = @ \cup {[kind |-> "listen", duration |-> Null, text |-> "",
                                                            speaking |-> u.speaking, next |-> 0]}],
                      FALSE, FALSE, hist)
          [] u.kind = "transition" ->
               Render([w0 EXCEPT !.ui.isSpeaking = FALSE,
                                 !.pend.timeouts = @ \cup {[kind |-> "startq", duration |-> u.duration,
                                                            text |-> u.text, speaking |-> u.speaking,
                                                            next |-> u.next]}],
                      FALSE, FALSE, hist)

\* the Voice Input / Stop Voice Input button
VoiceInputClick(micOk) ==
  /\ questionPanelVisible
  /\ ~currentAnswered(store)
  /\ hist.nUser < hist.max.user
  /\ MayFail(micOk)
  /\ IF ui.recording
       THEN micOk /\ Render(stopRecognition(World), FALSE, FALSE, User)
       ELSE Render(startRecognition(World, micOk, hist.session), FALSE, FALSE, Outcome(User, micOk))

\* the Read Question button: speakCurrentQuestion
ReadQuestionClick ==
  /\ questionPanelVisible
  /\ Truthy(currentText(store))
  /\ hist.nUser < hist.max.user
  /\ Render(speak(World, Plain), FALSE, FALSE, User)

\* rec.onresult: the recognised text is appended to the transcript
RecognitionResult ==
  /\ env.recActive
  /\ hist.nHeard < hist.max.heard
  /\ Render([World EXCEPT !.ui.transcript = SessionText[hist.session]], TRUE, FALSE,
            [hist EXCEPT !.nHeard = @ + 1])

\* rec.onerror: setRecording(false), a system message and a spoken error
RecognitionError ==
  /\ env.recActive
  /\ hist.nFail < hist.max.fail
  /\ Render(speak([World EXCEPT !.env.recActive = FALSE, !.ui.recording = FALSE,
                                !.store = pushMessage(@, Msg("system", "Recognition error.", hist.session))],
                  Plain),
            FALSE, FALSE, Outcome(hist, FALSE))

\* mediaRecorder.onstop: the blob of the stopped recording arrives
RecorderStopped ==
  /\ env.onstopPending
  /\ Render([World EXCEPT !.env.onstopPending = FALSE, !.ui.currentAudioBlob = TRUE,
                          !.ui.isRecordingAudio = FALSE],
            FALSE, FALSE, hist)

\* the wall clock reaches startedAt + durationSec: rem = 0 from now on
TimeExpires ==
  /\ store.startedAt # Null
  /\ ~env.timeUp
  /\ \A t \in pend.timeouts : t.kind # "first"   \* 1.5 s pass before 20 s do
  /\ Render([World EXCEPT !.env.timeUp = TRUE], FALSE, FALSE, hist)

timerRunning == store.status = "in_progress" /\ store.startedAt # Null /\ store.durationSec # Null

CanSubmit(snap) ==
  snap.status = "in_progress" =>
    /\ hist.nSubmits < hist.max.submits
    /\ Submits(snap) => Cardinality(pend.tasks) < hist.max.inflight

Submitted(snap) == IF snap.status = "in_progress" THEN [hist EXCEPT !.nSubmits = @ + 1] ELSE hist

\* a 250 ms tick of the timer effect that computes rem = 0: handleStopAndSend(true)
\* of the render in which the effect last ran
Tick ==
  /\ timerRunning
  /\ env.timeUp
  /\ CanSubmit(closures.tick)
  /\ Render(handleStopAndSend(World, TRUE, closures.tick, hist.nSubmits + 1), FALSE, FALSE,
            Submitted(closures.tick))

remainingUnclamped(now, startedAt, durationSec) ==
  durationSec - ((now - startedAt) \div 1000)

\* tick: elapsed = Math.floor((Date.now() - startedAt) / 1000);
\* rem = Math.max(0, durationSec - elapsed)
remaining(now, startedAt, durationSec) ==
  LET elapsed == (now - startedAt) \div 1000
      rem == IF durationSec - elapsed > 0 THEN durationSec - elapsed ELSE 0
  IN rem

\* the timer effect runs: its first tick() computes the remaining time
TimerEffectRuns ==
  /\ timerRunning
  /\ ui.remaining = <<>>
  /\ ui' = [ui EXCEPT !.remaining = <<remaining(env.now, store.startedAt, store.durationSec)>>]
  /\ UNCHANGED <<store, env, pend, closures, hist>>

\* the interval fires delay ms after the previous tick: tick() computes again
IntervalFires(delay) ==
  /\ timerRunning
  /\ ui.remaining # <<>>
  /\ env.now + delay - store.startedAt <= MaxElapsed
  /\ env' = [env EXCEPT !.now = @ + delay]
  /\ ui' = [ui EXCEPT !.remaining = <<remaining(env.now + delay, store.startedAt, store.durationSec)>>]
  /\ UNCHANGED <<store, pend, closures, hist>>

\* typing into the answer textarea
UserTypes ==
  /\ questionPanelVisible
  /\ ~currentAnswered(store)
  /\ ui.userInput = ""
  /\ hist.nUser < hist.max.user
  /\ Render([World EXCEPT !.ui.userInput = SessionText[hist.session]], FALSE, FALSE, User)

\* the Submit Answer button: setTranscript(userInput); handleStopAndSend(false); setUserInput("")
SubmitClick ==
  /\ questionPanelVisible
  /\ Truthy(Trim(ui.userInput))
  /\ ~currentAnswered(store)
  /\ CanSubmit(CurSnap)
  /\ Render(handleStopAndSend([World EXCEPT !.ui.transcript = ui.userInput, !.ui.userInput = ""],
                              FALSE, CurSnap, hist.nSubmits + 1),
            FALSE, FALSE, Submitted(CurSnap))

\* what /api/evaluate answers for an answer (route.ts): a fixed zero for an empty
\* answer, the model's clamped score otherwise, or an error status
EvaluateAnswers(answer) ==
  {[ok |-> FALSE, score |-> 0, feedback |-> ""]} \cup
  (IF Trim(answer) = ""
     THEN {[ok |-> TRUE, score |-> 0, feedback |-> "No answer provided."]}
     ELSE {[ok |-> TRUE, score |-> 2 * 7, feedback |-> "Good answer."]})

\* the evaluate request of invocation t is answered
EvaluateResponse(t, r) ==
  /\ t \in pend.tasks
  /\ t.pc = "evaluate"
  /\ MayFail(r.ok)
  /\ Render(afterEvaluate(World, t, r), FALSE, FALSE, Outcome(hist, r.ok))

\* blobToDataUrl resolves: the deferred set() of completeQuestion is applied
CommitLands(c) ==
  /\ c \in pend.commits
  /\ Render([World EXCEPT !.store = completeQuestionSet(@, c.idx, c.patch), !.pend.commits = @ \ {c}],
            FALSE, FALSE, hist)

\* the summary request of invocation t is answered
SummaryResponse(t, ok) ==
  /\ t \in pend.tasks
  /\ t.pc = "summary"
  /\ MayFail(ok)
  /\ Render(afterSummary(World, t, ok), FALSE, FALSE, Outcome(hist, ok))

\* a fetch of invocation t rejects (network error): the handler ends there
RequestFails(t) ==
  /\ t \in pend.tasks
  /\ hist.nFail < hist.max.fail
  /\ Render([World EXCEPT !.pend.tasks = @ \ {t}], FALSE, FALSE, Outcome(hist, FALSE))

\* the page is reloaded: the persisted part of the store is rehydrated, the
\* component state is initial, work in flight is gone
Reload ==
  /\ hist.nReloads < hist.max.reloads
  /\ store' = [store EXCEPT !.lastSession = <<>>]
  /\ ui' = [InitialUi EXCEPT !.modalOpen = store.status \in {"collecting", "in_progress"}]
  /\ env' = [InitialEnv(env.canRecognize) EXCEPT !.timeUp = env.timeUp]
  /\ pend' = NoPending
  /\ closures' = [hs |-> StaleOf(InitialUi),
                  tick |-> Snapshot(store, InitialUi, StaleOf(InitialUi), hist.session),
                  startSpeaking |-> FALSE]
  /\ hist' = [hist EXCEPT !.nReloads = @ + 1]

----------------------------------------------------------------------------
(* The operations of the store called on their own, and the component's       *)
(* completeCurrentQuestion callback                                           *)

Statuses == {"idle", "collecting", "ready", "in_progress", "completed"}

\* a store operation leaves the store s; nothing else is looked at
Call(s, h, op, idx, arg) ==
  /\ hist.nOps < hist.max.ops
  /\ store' = s
  /\ hist' = [h EXCEPT !.nOps = @ + 1, !.last = [op |-> op, idx |-> idx, arg |-> <<arg>>]]
  /\ UNCHANGED <<ui, env, pend, closures>>

CallSetCandidate(profile) == Call(setCandidate(store, profile), hist, "setCandidate", 0, profile)

CallSetStatus(s2) == Call(setStatus(store, s2), hist, "setStatus", 0, s2)

CallPushMessage(m) == Call(pushMessage(store, m), hist, "pushMessage", 0, m)

CallSetQuestion(idx, q) == Call(setQuestion(store, idx, q), hist, "setQuestion", idx, q)

CallSetQuestionsBulk(qs) == Call(setQuestionsBulk(store, qs), hist, "setQuestionsBulk", 0, qs)

CallStartQuestion(duration) == Call(startQuestion(store, duration), hist, "startQuestion", 0, duration)

CallCompleteQuestion(idx, patch) ==
  Call(completeQuestionSet(store, idx, patch), hist, "completeQuestion", idx, patch)

CallUpdateQuestionResult(idx, patch) ==
  Call(updateQuestionResult(store, idx, patch), hist, "updateQuestionResult", idx, patch)

CallResetSession ==
  /\ hist.session < hist.max.sessions
  /\ Call(resetSession(store), [hist EXCEPT !.session = @ + 1], "resetSession", 0, 0)

CallFinalizeSession(finalScore, summary) ==
  Call(finalizeSession(store, finalScore, summary), hist, "finalizeSession", 0,
       [finalScore |-> finalScore, summary |-> summary])

\* completeCurrentQuestion: completeQuestion(currentQuestion, { answer: userInput, answerAudio })
CompleteCurrentQuestion ==
  /\ hist.nOps < hist.max.ops
  /\ store.currentIndex < Len(store.questions)
  /\ ~Truthy(store.questions[store.currentIndex + 1].answer)
  /\ LET patch == [answer |-> ui.userInput, score |-> NoScore, feedback |-> NoStr, ses |-> hist.session]
         w1 == IF ui.currentAudioBlob
                 THEN [World EXCEPT !.pend.commits = @ \cup {[id |-> 0, idx |-> store.currentIndex, patch |-> patch]}]
                 ELSE [World EXCEPT !.store = completeQuestionSet(@, store.currentIndex, patch)]
     IN Render([w1 EXCEPT !.ui.userInput = "", !.ui.currentAudioBlob = FALSE], FALSE, FALSE,
               [hist EXCEPT !.nOps = @ + 1,
                            !.last = [op |-> "completeCurrentQuestion", idx |-> store.currentIndex,
                                      arg |-> <<patch>>]])

Patches(ses) ==
  { [answer |-> a, score |-> sc, feedback |-> f, ses |-> ses] :
      a \in {NoStr, SessionText[ses]}, sc \in {NoScore, 7}, f \in {NoStr, "Good answer."} }
  \ { [answer |-> NoStr, score |-> NoScore, feedback |-> NoStr, ses |-> ses] }

\* six items with a text, as /api/generate-questions returns them
BulkItems(ses) ==
  { [i \in 1..NumQuestions |-> [text |-> SessionText[ses], difficulty |-> diffs[i]]] :
      diffs \in DifficultyAnswers }

FullPatches(ses) ==
  { [answer |-> a, score |-> sc, feedback |-> "Good answer.", ses |-> ses] :
      a \in {"", SessionText[ses]}, sc \in {0, 7} }

-----------------------------------------------------------------------------
(* The API routes generate-questions and evaluate, as the server computes them *)

\* the models POST (generate-questions) calls, in the order of its attempts
ModelTiers == <<"gemini-1.5-flash-8b-latest", "gemini-1.5-flash-latest", "gemini-1.5-pro-latest">>

\* "smaller flash model", "standard flash model", "pro model as a final AI attempt"
TierSize(modelId) ==
  IF modelId = "gemini-1.5-flash-8b-latest" THEN 1
  ELSE IF modelId = "gemini-1.5-flash-latest" THEN 2 ELSE 3

\* QuestionsSchema on the difficulties of an object's questions: an array of length 6
\* whose items hold a difficulty of the enum (the texts are left out)
QuestionsSchema(questions) ==
  /\ Len(questions) = 6
  /\ \A i \in DOMAIN questions : questions[i] \in {"easy", "medium", "hard"}

\* what a model may produce for the prompt, as the difficulties of its questions:
\* what the prompt asks for, other objects of six, and objects that are not of the schema
ModelObjects ==
  {<<"easy", "easy", "medium", "medium", "hard", "hard">>,
   <<"hard", "hard", "medium", "medium", "easy", "easy">>,
   <<"easy", "easy", "easy", "easy", "easy", "easy">>,
   <<"easy", "easy", "medium", "medium", "hard">>,
   <<"easy", "easy", "medium", "medium", "hard", "expert">>,
   <<>>}

\* the static questions of the last catch
fallback == <<"easy", "easy", "medium", "medium", "hard", "hard">>

\* an exchange with a route: status 0 while the route works, then the HTTP status;
\* attempt and from: the model attempt under way and who produced the questions;
\* idx and answer: the question an evaluation is for and the answer sent
Exchange(api, attempt, status, questions, from, idx, answer, score, feedback) ==
  [api |-> api, attempt |-> attempt, status |-> status, questions |-> questions, from |-> from,
   idx |-> idx, answer |-> answer, score |-> score, feedback |-> feedback]

GenerateExchange(attempt, status, questions, from) ==
  Exchange("generate-questions", attempt, status, questions, from, 0, "", NoScore, "")

\* no request is with a route, and no evaluation waits for the client
RouteFree ==
  IF pend.route = <<>> THEN TRUE
  ELSE pend.route[1].api = "generate-questions" /\ pend.route[1].status # 0

\* POST (generate-questions) up to its first attempt: the API key and BodySchema
GenerateQuestionsPost(hasKey, role) ==
  /\ RouteFree
  /\ pend' = [pend EXCEPT !.route =
                IF hasKey /\ role # ""
                  THEN <<GenerateExchange(1, 0, <<>>, "")>>
                  ELSE <<GenerateExchange(0, 500, <<>>, "")>>]
  /\ UNCHANGED <<store, ui, env, closures, hist>>

\* callModel of the attempt under way returns object or throws (generateObject
\* rejects what is not of the schema); the last catch answers with the fallback
ModelAttempt(object) ==
  /\ pend.route # <<>>
  /\ pend.route[1].api = "generate-questions"
  /\ pend.route[1].status = 0
  /\ LET attempt == pend.route[1].attempt
     IN pend' = [pend EXCEPT !.route =
                  IF QuestionsSchema(object)
                    THEN <<GenerateExchange(attempt, 200, object, ModelTiers[attempt])>>
                  ELSE IF attempt < Len(ModelTiers)
                    THEN <<GenerateExchange(attempt + 1, 0, <<>>, "")>>
                  ELSE <<GenerateExchange(attempt, 200, fallback, "fallback")>>]
  /\ UNCHANGED <<store, ui, env, closures, hist>>

\* the numbers a model's JSON may carry as score, counted in halves (15 is 7.5)
ModelScores == {-4, 0, 15, 20, 27}

\* what generateText may yield for an evaluation: JSON with a score and a feedback,
\* JSON without a number as score, text that is not JSON, or a rejection (an
\* error, or the provider's 429)
EvaluationOutputs ==
  {[kind |-> "json", score |-> sc, feedback |-> "Good answer."] : sc \in ModelScores} \cup
  {[kind |-> k, score |-> NoScore, feedback |-> ""] : k \in {"no-score", "text", "error", "quota"}}

\* the body of an evaluate response, its score in halves
Evaluation(status, score, feedback) == [status |-> status, score |-> score, feedback |-> feedback]

\* POST (evaluate): the score is clamped as the model gave it
evaluateFirst(hasKey, question, answer, out) ==
  IF ~hasKey THEN Evaluation(500, NoScore, "")
  ELSE IF Trim(question) = "" THEN Evaluation(400, NoScore, "")
  ELSE IF Trim(answer) = "" THEN Evaluation(200, 0, "No answer provided.")
  ELSE IF out.kind # "json" THEN Evaluation(500, NoScore, "")
  ELSE Evaluation(200, Max(0, Min(2 * 10, out.score)), out.feedback)

\* POST (evaluate, second version): 429 on the provider's rate limit, a fallback
\* evaluation of 5 when the model call fails, the heuristic's score (3 for the short
\* answers followed here) when the output holds no evaluation, and the score rounded
evaluateSecond(hasKey, question, answer, out) ==
  IF ~hasKey THEN Evaluation(500, NoScore, "")
  ELSE IF Trim(question) = "" THEN Evaluation(400, NoScore, "")
  ELSE IF Trim(answer) = "" THEN Evaluation(200, 0, "No answer provided.")
  ELSE IF out.kind = "quota" THEN Evaluation(429, 0, "Rate limit reached.")
  ELSE IF out.kind = "error" THEN Evaluation(200, 2 * 5, "Automatic fallback.")
  ELSE LET score == IF out.kind = "json" THEN out.score ELSE 2 * 3
           feedback == IF out.kind = "json" THEN out.feedback ELSE "Fallback heuristic evaluation."
       IN Evaluation(200, 2 * Max(0, Min(10, Round(score))), feedback)

\* the evaluate route of the build: either version of POST
evaluate(version, hasKey, question, answer, out) ==
  IF version = 1 THEN evaluateFirst(hasKey, question, answer, out)
  ELSE evaluateSecond(hasKey, question, answer, out)

\* fetch("/api/evaluate") for the current question, answered by the route
EvaluatePost(version, hasKey, answer, out) ==
  /\ RouteFree
  /\ store.status = "in_progress"
  /\ store.currentIndex < RouteSubmits
  /\ LET res == evaluate(version, hasKey, store.questions[store.currentIndex + 1].text, answer, out)
     IN pend' = [pend EXCEPT !.route =
                  <<Exchange("evaluate", 0, res.status, <<>>, "", store.currentIndex, answer,
                             res.score, res.feedback)>>]
  /\ UNCHANGED <<store, ui, env, closures, hist>>

\* handleStopAndSend after the fetch: the score and the feedback of the response are
\* committed with completeQuestion, and the feedback is shown
EvaluationCommitted ==
  /\ pend.route # <<>>
  /\ pend.route[1].api = "evaluate"
  /\ LET res == pend.route[1]
         ok == res.status \in 200..299
         patch == [answer |-> res.answer, score |-> scoreOf(ok, res.score),
                   feedback |-> feedbackOf(ok, res.feedback), ses |-> hist.session]
     IN store' = pushMessage(completeQuestionSet(store, res.idx, patch),
                             Msg("assistant", "Feedback", hist.session))
  /\ pend' = [pend EXCEPT !.route = <<>>]
  /\ UNCHANGED <<ui, env, closures, hist>>

----------------------------------------------------------------------------
(* Specifications *)

\* what every interview consists of
Interview ==
  \/ \E valid \in BOOLEAN : OnUpload(valid)
  \/ \E ok \in BOOLEAN : \E ext \in ExtractedProfiles(SessionText[hist.session]) : ExtractResponse(ok, ext)
  \/ HandleStart
  \/ \E inv \in pend.starts : \E ok \in BOOLEAN : \E diffs \in DifficultyAnswers :
       GenerateResponse(inv, ok, diffs)
  \/ \E t \in pend.timeouts : \E micOk \in BOOLEAN : TimeoutFires(t, micOk)
  \/ SpeechEnd
  \/ TimeExpires
  \/ Tick
  \/ \E t \in pend.tasks : \E r \in EvaluateAnswers(t.answer) : EvaluateResponse(t, r)

Typing ==
  \/ UserTypes
  \/ SubmitClick

Voice ==
  \/ \E micOk \in BOOLEAN : VoiceInputClick(micOk)
  \/ RecorderStopped

Editing ==
  \/ \E f \in {"name", "email", "phone"} : \E v \in {"", " ", SessionText[hist.session]} :
       HandleCandidateChange(f, v)
  \/ HandleSaveProfile
  \/ ResumeClick
  \/ ReadQuestionClick

Next ==
  \/ Interview
  \/ \E t \in pend.tasks : \E ok \in BOOLEAN : SummaryResponse(t, ok)
  \/ Typing
  \/ Voice
  \/ Editing

Spec == Init /\ [][Next]_vars

InitRace == InitWith(Allowance(0, 0, 0, RaceSubmits, RaceInflight, MaxStarts, MaxSessions, 0, 0))

NextRace == Interview

SpecRace == InitRace /\ [][NextRace]_vars

InitAudio == InitWith(Allowance(AudioUser, 0, AudioHeard, AudioSubmits, AudioInflight, AudioStarts, MaxSessions, 0, 0))

NextAudio ==
  \/ Interview
  \/ Typing
  \/ Voice
  \/ RecognitionResult
  \/ \E c \in pend.commits : CommitLands(c)

SpecAudio == InitAudio /\ [][NextAudio]_vars

InitReset == InitWith(Allowance(0, 0, 0, ResetSubmits, MaxInflight, ResetStarts, ResetSessions, ResetReloads, 0))

NextReset ==
  \/ Interview
  \/ ResetClick
  \/ StartOverClick
  \/ Reload

SpecReset == InitReset /\ [][NextReset]_vars

InitFail == InitWith(Allowance(0, MaxFailures, 0, FailSubmits, MaxInflight, MaxStarts, MaxSessions, 0, 0))

NextFail ==
  \/ Interview
  \/ RecognitionError
  \/ \E t \in pend.tasks : RequestFails(t)

SpecFail == InitFail /\ [][NextFail]_vars

InitIntake == InitWith(Allowance(IntakeUser, IntakeFailures, 0, IntakeSubmits, MaxInflight, MaxStarts, MaxSessions, 0, 0))

NextIntake ==
  \/ Interview
  \/ Editing

SpecIntake == InitIntake /\ [][NextIntake]_vars

\* a whole interview in a browser with or without speech recognition, in which
\* requests and capabilities may fail; timers, speech callbacks and responses are
\* fair, the user does nothing but upload and start
InitLive ==
  \E canRecognize \in BOOLEAN :
    /\ store = InitialStore
    /\ ui = InitialUi
    /\ env = InitialEnv(canRecognize)
    /\ pend = NoPending
    /\ closures = [hs |-> StaleOf(InitialUi),
                   tick |-> Snapshot(InitialStore, InitialUi, StaleOf(InitialUi), 1),
                   startSpeaking |-> FALSE]
    /\ hist = [session |-> 1, nSubmits |-> 0, nStarts |-> 0, nUser |-> 0, nFail |-> 0, nHeard |-> 0,
               nReloads |-> 0, nOps |-> 0, uploadedSes |-> 0, timerFor |-> 0, last |-> NoCall,
               max |-> Allowance(0, LiveFailures, 0, LiveSubmits, MaxInflight, MaxStarts, MaxSessions, 0, 0)]

\* the request of invocation t gets its answer, or is rejected
Answered(t) ==
  \/ \E r \in EvaluateAnswers(t.answer) : EvaluateResponse(t, r)
  \/ \E ok \in BOOLEAN : SummaryResponse(t, ok)
  \/ RequestFails(t)

NextLive ==
  \/ Interview
  \/ \E t \in pend.tasks : \E ok \in BOOLEAN : SummaryResponse(t, ok)
  \/ \E t \in pend.tasks : RequestFails(t)
  \/ RecognitionError

Fairness ==
  /\ WF_vars(\E t \in pend.timeouts : \E micOk \in BOOLEAN : TimeoutFires(t, micOk))
  /\ WF_vars(SpeechEnd)
  /\ WF_vars(TimeExpires)
  /\ WF_vars(Tick)
  /\ WF_vars(\E ok \in BOOLEAN : \E ext \in ExtractedProfiles(SessionText[hist.session]) : ExtractResponse(ok, ext))
  /\ WF_vars(\E inv \in pend.starts : \E ok \in BOOLEAN : \E diffs \in DifficultyAnswers :
               GenerateResponse(inv, ok, diffs))
  /\ WF_vars(\E t \in pend.tasks : Answered(t))

SpecLive == InitLive /\ [][NextLive]_vars /\ Fairness

\* the interview with the generated questions set one by one; the forEach runs to
\* completion before any other callback
InitGenerate == InitWith(Allowance(0, 0, 0, GenSubmits, MaxInflight, MaxStarts, MaxSessions, 0, 0))

\* no forEach of generateAllQuestions is in progress
Quiet == pend.gen = <<>>

NextGenerate ==
  \/ Quiet /\ \E valid \in BOOLEAN : OnUpload(valid)
  \/ Quiet /\ \E ok \in BOOLEAN : \E ext \in ExtractedProfiles(SessionText[hist.session]) : ExtractResponse(ok, ext)
  \/ Quiet /\ HandleStart
  \/ Quiet /\ \E inv \in pend.starts : \E diffs \in DifficultyAnswers : QuestionsArrive(inv, diffs)
  \/ SetNextQuestion
  \/ QuestionsApplied
  \/ Quiet /\ \E t \in pend.timeouts : \E micOk \in BOOLEAN : TimeoutFires(t, micOk)
  \/ Quiet /\ SpeechEnd
  \/ Quiet /\ TimeExpires
  \/ Quiet /\ Tick
  \/ Quiet /\ \E t \in pend.tasks : \E r \in EvaluateAnswers(t.answer) : EvaluateResponse(t, r)

SpecGenerate == InitGenerate /\ [][NextGenerate]_vars

\* the arithmetic of the timer: a question of any duration was started at startedAt,
\* the page shows it elapsed ms later (at once, or after a reload), and the interval
\* of 250 ms fires on time or late
InitTimer ==
  \E idx \in 0..(NumQuestions - 1) : \E startedAt \in TimerStarts : \E elapsed \in TimerElapsed :
    /\ store = [startQuestion(InitialStore, DurationOf(idx)) EXCEPT !.startedAt = startedAt]
    /\ ui = InitialUi
    /\ env = [InitialEnv(TRUE) EXCEPT !.now = startedAt + elapsed]
    /\ pend = NoPending
    /\ closures = [hs |-> StaleOf(InitialUi),
                   tick |-> Snapshot(InitialStore, InitialUi, StaleOf(InitialUi), 1),
                   startSpeaking |-> FALSE]
    /\ hist = [session |-> 1, nSubmits |-> 0, nStarts |-> 0, nUser |-> 0, nFail |-> 0, nHeard |-> 0,
               nReloads |-> 0, nOps |-> 0, uploadedSes |-> 0, timerFor |-> idx, last |-> NoCall,
               max |-> Allowance(0, 0, 0, 0, 0, 0, 0, 0, 0)]

NextTimer ==
  \/ TimerEffectRuns
  \/ \E delay \in TickDelays : IntervalFires(delay)

SpecTimer == InitTimer /\ [][NextTimer]_vars

InitStore == InitWith(Allowance(StoreUser, 0, 0, 0, 0, 0, StoreSessions, 0, StoreOps))

NextStore ==
  \/ \E d \in {"", SessionText[hist.session]} : CallSetCandidate([name |-> d, email |-> d, phone |-> d])
  \/ \E s2 \in Statuses : CallSetStatus(s2)
  \/ \E role \in {"assistant", "user"} : CallPushMessage(Msg(role, "text", hist.session))
  \/ \E idx \in {0, NumQuestions - 1} : \E d \in {"easy", "hard"} :
       CallSetQuestion(idx, [text |-> SessionText[hist.session], difficulty |-> d])
  \/ \E qs \in BulkItems(hist.session) : CallSetQuestionsBulk(qs)
  \/ \E duration \in {20, 120} : CallStartQuestion(duration)
  \/ \E idx \in 0..(NumQuestions - 1) : \E patch \in FullPatches(hist.session) : CallCompleteQuestion(idx, patch)
  \/ \E idx \in {0, NumQuestions - 1} : \E patch \in Patches(hist.session) : CallUpdateQuestionResult(idx, patch)
  \/ CallResetSession
  \/ \E finalScore \in {0, 7} : CallFinalizeSession(finalScore, "summary")
  \/ UserTypes
  \/ CompleteCurrentQuestion

SpecStore == InitStore /\ [][NextStore]_vars

\* the routes alone: question generation, and the evaluation of the first questions of
\* an interview with its commit by the client
InitRoutes ==
  /\ store = startQuestion(setQuestions(InitialStore, SessionText[1], difficultiesSequence, 1),
                           DurationOf(0))
  /\ ui = InitialUi
  /\ env = InitialEnv(TRUE)
  /\ pend = NoPending
  /\ closures = [hs |-> StaleOf(InitialUi),
                 tick |-> Snapshot(InitialStore, InitialUi, StaleOf(InitialUi), 1),
                 startSpeaking |-> FALSE]
  /\ hist = [session |-> 1, nSubmits |-> 0, nStarts |-> 0, nUser |-> 0, nFail |-> 0, nHeard |-> 0,
             nReloads |-> 0, nOps |-> 0, uploadedSes |-> 0, timerFor |-> 0, last |-> NoCall,
             max |-> Allowance(0, 0, 0, 0, 0, 0, 0, 0, 0)]

NextRoutes ==
  \/ \E hasKey \in BOOLEAN : \E role \in {"Software Engineer", ""} : GenerateQuestionsPost(hasKey, role)
  \/ \E object \in ModelObjects : ModelAttempt(object)
  \/ \E version \in {1, 2} : \E hasKey \in BOOLEAN : \E answer \in {"", " ", NoAnswerText, "answer"} :
       \E out \in EvaluationOutputs : EvaluatePost(version, hasKey, answer, out)
  \/ EvaluationCommitted

SpecRoutes == InitRoutes /\ [][NextRoutes]_vars

\* a whole interview whose answers are recorded: the recorder's blob, the deferred
\* set() of completeQuestion and the summary
\* the response of generate-questions as generateAllQuestions takes it: the client
\* applies whatever array it holds, of any length
GeneratorResponses ==
  { [i \in 1..n |-> difficultiesSequence[((i - 1) % NumQuestions) + 1]] : n \in MinItems..MaxItems }

InitLength == InitWith(Allowance(0, 0, 0, LengthSubmits, MaxInflight, MaxStarts, MaxSessions, 0, 0))

NextLength ==
  \/ \E valid \in BOOLEAN : OnUpload(valid)
  \/ \E ok \in BOOLEAN : \E ext \in ExtractedProfiles(SessionText[hist.session]) : ExtractResponse(ok, ext)
  \/ HandleStart
  \/ \E inv \in pend.starts : \E items \in GeneratorResponses : GenerateResponse(inv, TRUE, items)
  \/ \E t \in pend.timeouts : \E micOk \in BOOLEAN : TimeoutFires(t, micOk)
  \/ SpeechEnd
  \/ TimeExpires
  \/ Tick
  \/ \E t \in pend.tasks : \E r \in EvaluateAnswers(t.answer) : EvaluateResponse(t, r)

SpecLength == InitLength /\ [][NextLength]_vars

InitArchive == InitWith(Allowance(MaxUser, 0, 0, MaxSubmits, MaxInflight, MaxStarts, MaxSessions, 0, 0))

NextArchive ==
  \/ Interview
  \/ \E t \in pend.tasks : \E ok \in BOOLEAN : SummaryResponse(t, ok)
  \/ Typing
  \/ Voice
  \/ Editing
  \/ \E c \in pend.commits : CommitLands(c)

SpecArchive == InitArchive /\ [][NextArchive]_vars

\* the store after the questions idx..last of session 1 timed out unanswered and were
\* evaluated: handleStopAndSend(true) and its commit, once per question
RECURSIVE TimedOut(_, _, _)
TimedOut(s, idx, last) ==
  IF idx > last THEN s
  ELSE LET s1 == pushMessage(pushMessage(s, Msg("assistant", "Time's up.", 1)), Msg("user", NoAnswerText, 1))
           s2 == completeQuestionSet(s1, idx, [answer |-> NoAnswerText, score |-> scoreOf(TRUE, 2 * 7),
                                                feedback |-> "Good answer.", ses |-> 1])
       IN TimedOut(pushMessage(s2, Msg("assistant", "Feedback", 1)), idx + 1, last)

\* the store when the sixth question is listened to: a complete resume was uploaded,
\* the interview started and five questions timed out (a state Spec reaches)
SixthStarted ==
  LET profile == [name |-> SessionText[1], email |-> SessionText[1], phone |-> SessionText[1]]
      s1 == pushMessage(setCandidate(InitialStore, profile), Msg("system", "Resume uploaded.", 1))
      s2 == pushMessage(setStatus(s1, "ready"), Msg("assistant", "Your details look complete.", 1))
      s3 == pushMessage(s2, Msg("assistant", "You'll be asked 6 questions.", 1))
      s4 == setQuestions(s3, SessionText[1], difficultiesSequence, 1)
  IN startQuestion(TimedOut(startQuestion(s4, DurationOf(0)), 0, NumQuestions - 2),
                   DurationOf(NumQuestions - 1))

\* the end of an interview: the sixth question is listened to and recorded; it may be
\* submitted twice and one request may fail
InitFinal ==
  /\ store = SixthStarted
  /\ ui = [InitialUi EXCEPT !.recording = TRUE, !.isRecordingAudio = TRUE, !.hasResume = TRUE,
                            !.editableCandidate = SixthStarted.candidate, !.modalOpen = TRUE]
  /\ env = [InitialEnv(TRUE) EXCEPT !.recActive = TRUE, !.recorder = "recording"]
  /\ pend = NoPending
  /\ closures = [hs |-> [speaking |-> TRUE, blob |-> FALSE, recAudio |-> FALSE],
                 tick |-> Snapshot(SixthStarted, InitialUi,
                                   [speaking |-> TRUE, blob |-> FALSE, recAudio |-> FALSE], 1),
                 startSpeaking |-> TRUE]
  /\ hist = [session |-> 1, nSubmits |-> NumQuestions - 1, nStarts |-> 1, nUser |-> 0, nFail |-> 0,
             nHeard |-> 0, nReloads |-> 0, nOps |-> 0, uploadedSes |-> 1,
             timerFor |-> NumQuestions - 1, last |-> NoCall,
             max |-> Allowance(0, FinalFailures, 0, FinalSubmits, FinalInflight, MaxStarts,
                               MaxSessions, 0, 0)]

NextFinal ==
  \/ SpeechEnd
  \/ TimeExpires
  \/ Tick
  \/ \E t \in pend.tasks : \E r \in EvaluateAnswers(t.answer) : EvaluateResponse(t, r)
  \/ \E t \in pend.tasks : \E ok \in BOOLEAN : SummaryResponse(t, ok)

SpecFinal == InitFinal /\ [][NextFinal]_vars

----------------------------------------------------------------------------
(* Properties *)

\* C1: currentIndex is in 0..6, and status is completed exactly when currentIndex is 6
IndexAndStatus ==
  /\ store.currentIndex \in 0..NumQuestions
  /\ store.status = "completed" <=> store.currentIndex = NumQuestions

UserMessages == { k \in DOMAIN store.messages : store.messages[k].role = "user" }

\* C2: a question's submission triggered twice commits one result: completeQuestion is
\* applied at most once per question, and one answer per question is in the transcript
CommittedOnce ==
  /\ \A i \in DOMAIN store.questions : store.questions[i].n <= 1
  /\ Cardinality(UserMessages) <= store.currentIndex + 1

\* C3: the timer issues the automatic submission of a question once: no two automatic
\* submissions of the same question are in progress
AutoSubmitOnce ==
  \A t1, t2 \in pend.tasks :
    (t1.auto /\ t2.auto /\ t1.idx = t2.idx /\ t1.ses = t2.ses) => t1 = t2

\* C4: within a session no step moves currentIndex to a smaller value
IndexNeverDecreases ==
  [][hist'.session = hist.session => store'.currentIndex >= store.currentIndex]_vars

\* C5: every question has all of answer, score and feedback, or none of them
AllOrNone ==
  \A i \in DOMAIN store.questions :
    LET q == store.questions[i]
    IN \/ q.answer # NoStr /\ q.score # NoScore /\ q.feedback # NoStr
       \/ q.answer = NoStr /\ q.score = NoScore /\ q.feedback = NoStr

\* a question holds an answer and no score, as completeCurrentQuestion leaves it
AnswerWithoutScore ==
  \E i \in DOMAIN store.questions :
    /\ Truthy(store.questions[i].answer)
    /\ store.questions[i].score = NoScore
    /\ store.currentIndex = i

\* C6: while the timer of question n+1 runs, the result of question n is in the store
CommitBeforeNextTimer ==
  (store.startedAt # Null /\ hist.timerFor >= 1) =>
    store.questions[hist.timerFor].answer # NoStr

\* C7: no submission waits for the evaluator while its question has no committed result
CommitWithoutWaiting ==
  \A t \in pend.tasks :
    (t.pc = "evaluate" /\ t.ses = hist.session) => store.questions[t.idx + 1].answer # NoStr

\* C8: speech synthesis and speech recognition are never active at the same time
NeverSpeakingAndListening == ~(env.utter # <<>> /\ env.recActive)

OfSession(v, ses) == v \in {"", " ", NoStr, SessionText[ses]}

\* C9: after a reset and a fresh resume upload the store holds nothing of an earlier session
NoLeakAfterReset ==
  (hist.session > 1 /\ hist.uploadedSes = hist.session) =>
    /\ \A k \in DOMAIN store.messages : store.messages[k].ses = hist.session
    /\ \A i \in DOMAIN store.questions :
         /\ store.questions[i].ses \in {0, hist.session}
         /\ OfSession(store.questions[i].text, hist.session)
    /\ \A f \in {"name", "email", "phone"} : OfSession(store.candidate[f], hist.session)

Pattern == <<"easy", "easy", "medium", "medium", "hard", "hard">>

\* the step is a call of the store operation op
Called(op) == hist'.nOps # hist.nOps /\ hist'.last.op = op

\* C11: once finalizeSession has stored a snapshot, no other operation changes it
SnapshotImmutable ==
  [][(store.lastSession # <<>> /\ ~Called("finalizeSession")) =>
       store'.lastSession = store.lastSession]_vars

\* a snapshot exists and a result was patched into the live session after it
PatchedAfterFinalize ==
  /\ store.lastSession # <<>>
  /\ hist.last.op = "updateQuestionResult"
  /\ store.questions[hist.last.idx + 1].score # store.lastSession[1].questions[hist.last.idx + 1].score

\* the snapshot's profile, score, summary and transcript are those of the call and
\* of the live session, the session is completed and no timer is anchored
RoundTripFrame(snap, live, after, arg) ==
  /\ snap.finalScore = arg.finalScore
  /\ snap.summary = arg.summary
  /\ snap.name = live.candidate.name
  /\ snap.email = live.candidate.email
  /\ snap.phone = live.candidate.phone
  /\ snap.transcript = live.messages
  /\ Len(snap.questions) = Len(live.questions)
  /\ \A i \in 1..Len(live.questions) :
       /\ snap.questions[i].question = live.questions[i].text
       /\ snap.questions[i].difficulty = live.questions[i].difficulty
  /\ after.status = "completed"
  /\ after.startedAt = Null

BulkKeepsPattern ==
  [][(/\ Called("setQuestionsBulk")
      /\ Len(hist'.last.arg[1]) = NumQuestions
      /\ \A i \in 1..NumQuestions : hist'.last.arg[1][i].text # "")
     => /\ Len(store'.questions) = NumQuestions
        /\ \A i \in 1..NumQuestions : store'.questions[i].text # ""
        /\ \A i \in 1..NumQuestions : store'.questions[i].difficulty = Pattern[i]]_vars

\* setQuestionsBulk just stored six questions with a text, the first of them hard
BulkStoredHardFirst ==
  /\ hist.last.op = "setQuestionsBulk"
  /\ Len(store.questions) = NumQuestions
  /\ \A i \in 1..NumQuestions : store.questions[i].text # ""
  /\ store.questions[1].difficulty = "hard"

\* C15: the generated questions reach the store in one transition: in no state do
\* some of the six questions have a text while others have none
QuestionsAllOrNone ==
  \/ \A i \in 1..Len(store.questions) : store.questions[i].text = ""
  \/ \A i \in 1..Len(store.questions) : store.questions[i].text # ""

\* the forEach of generateAllQuestions has set three of the six questions
HalfGenerated ==
  /\ pend.gen # <<>>
  /\ pend.gen[1].at = 3
  /\ store.questions[3].text # ""
  /\ store.questions[4].text = ""

\* C16: in every state the difficulties of the six questions, in index order, are
\* easy, easy, medium, medium, hard, hard
DifficultyPattern ==
  /\ Len(store.questions) = NumQuestions
  /\ \A i \in 1..NumQuestions : store.questions[i].difficulty = Pattern[i]

\* the interview runs on generated questions of which the first is hard
InterviewStartsHard ==
  /\ store.status = "in_progress"
  /\ store.startedAt # Null
  /\ store.currentIndex = 0
  /\ store.questions[1].text # ""
  /\ store.questions[1].difficulty = "hard"

\* C17: updateQuestionResult(idx, patch) merges the fields of the patch into
\* questions[idx] and leaves currentIndex, status, the timer, the profile, the
\* transcript and every other question unchanged
PatchFrame ==
  [][Called("updateQuestionResult") =>
       LET idx == hist'.last.idx
           patch == hist'.last.arg[1]
           before == store.questions[idx + 1]
           after == store'.questions[idx + 1]
       IN /\ after.answer = (IF patch.answer = NoStr THEN before.answer ELSE patch.answer)
          /\ after.score = (IF patch.score = NoScore THEN before.score ELSE patch.score)
          /\ after.feedback = (IF patch.feedback = NoStr THEN before.feedback ELSE patch.feedback)
          /\ after.text = before.text
          /\ after.difficulty = before.difficulty
          /\ Len(store'.questions) = Len(store.questions)
          /\ \A i \in 1..Len(store.questions) : i # idx + 1 => store'.questions[i] = store.questions[i]
          /\ store'.currentIndex = store.currentIndex
          /\ store'.status = store.status
          /\ store'.startedAt = store.startedAt
          /\ store'.durationSec = store.durationSec
          /\ store'.candidate = store.candidate
          /\ store'.messages = store.messages]_vars

\* a score was patched into the last question while the timer of the first one ran
PatchedWhileTimerRuns ==
  /\ hist.last.op = "updateQuestionResult"
  /\ hist.last.idx = NumQuestions - 1
  /\ store.questions[NumQuestions].score = 7
  /\ store.status = "in_progress"
  /\ store.startedAt # Null
  /\ store.currentIndex = 0

\* C18: whenever status is not in_progress, startedAt and durationSec are both null
TimerOnlyInProgress ==
  store.status # "in_progress" => (store.startedAt = Null /\ store.durationSec = Null)

\* the profile was saved while a question timer ran: the status is ready again and
\* the timer of the question is still anchored
ReadyWithTimer ==
  /\ store.status = "ready"
  /\ store.startedAt # Null
  /\ store.durationSec # Null
  /\ hist.nUser > 0

\* C19: for now >= startedAt the remaining time the timer computes is
\* max(0, durationSec - floor((now - startedAt) / 1000)): never negative, and 0 for
\* durationSec = 20 with startedAt 25 seconds in the past
RemainingTime ==
  (ui.remaining # <<>> /\ env.now >= store.startedAt) =>
    LET rem == ui.remaining[1]
        ms == env.now - store.startedAt
    IN /\ rem >= 0
       /\ \E secs \in 0..(ms \div 1000 + 1) :
            /\ 1000 * secs <= ms
            /\ ms < 1000 * (secs + 1)
            /\ (store.durationSec - secs >= 0 => rem = store.durationSec - secs)
            /\ (store.durationSec - secs < 0 => rem = 0)
       /\ (store.durationSec = 20 /\ ms = 25000) => rem = 0

\* an easy question started 25 seconds ago and the timer shows 0
EasyQuestionOverdue ==
  /\ ui.remaining = <<0>>
  /\ store.durationSec = 20
  /\ env.now - store.startedAt = 25000

\* C20: the start command moves the session to in_progress only from status ready
\* with name, email and phone all non-empty; otherwise it starts no timer and leaves
\* the status unchanged (the command ends in the step that takes it out of
\* pend.starts, a reload apart)
StartOnlyWhenReady ==
  [][\A inv \in pend.starts :
       (inv \notin pend'.starts /\ hist'.nReloads = hist.nReloads) =>
         \/ store.status = "ready" /\ canStart(store)
         \/ store'.status = store.status /\ store'.startedAt = store.startedAt]_vars

\* the question timer runs in a session that was reset and has no profile
StartedWithoutProfile ==
  /\ store.status = "in_progress"
  /\ store.startedAt # Null
  /\ store.candidate.name = ""
  /\ store.currentIndex = 0
  /\ pend.starts = {}
  /\ hist.session > 1

\* C21: a resume accepted in status idle leads to ready when the extracted name,
\* email and phone are all non-empty and to collecting when one is missing; an
\* upload that is refused and an extraction that fails leave status and profile
UploadOutcome ==
  [][store.status = "idle" /\ ~ui.hasResume =>
       /\ ui'.hasResume =>
            /\ store'.candidate = ui'.editableCandidate
            /\ store'.status =
                 (IF \A f \in {"name", "email", "phone"} : ui'.editableCandidate[f] # ""
                    THEN "ready" ELSE "collecting")
       /\ (\/ hist'.last # hist.last /\ hist'.last.op = "onUpload"
           \/ hist'.nFail # hist.nFail /\ pend'.uploads < pend.uploads) =>
            /\ store'.status = store.status
            /\ store'.candidate = store.candidate]_vars

\* after a refused file and a failed extraction, a resume without phone was accepted
AcceptedIncomplete ==
  /\ hist.nUser = 1
  /\ hist.nFail = 1
  /\ ui.hasResume
  /\ store.status = "collecting"
  /\ store.candidate.name # ""
  /\ store.candidate.phone = ""
  /\ Len(store.messages) = 2

\* C22: in every state with status ready the stored name, email and phone are all
\* non-empty
ReadyHasProfile ==
  store.status = "ready" =>
    \A f \in {"name", "email", "phone"} : store.candidate[f] # ""

\* the details were saved with a phone field of one blank: ready without a phone
ReadyWithBlankPhone ==
  /\ store.status = "ready"
  /\ ui.editableCandidate.phone = " "
  /\ store.candidate.phone = ""
  /\ store.candidate.name # ""
  /\ store.startedAt = Null

\* C23: in every state a reset command is available to the user (the Reset button
\* of the Start & Reset controls or the Start Over button of the open modal), and
\* the store it would leave has status idle
ResetAvailable ==
  /\ startResetVisible \/ ui.modalOpen
  /\ resetSession(store).status = "idle"

\* the interview is over and archived: no Reset button, no modal
CompletedWithoutReset ==
  /\ store.status = "completed"
  /\ store.lastSession # <<>>
  /\ ~startResetVisible
  /\ ~ui.modalOpen

\* C24: when the scoring request for question i fails (an error status, or a
\* network error that rejects the request), the result of question i is committed
\* all the same and currentIndex becomes i + 1
ScoringFailureCommits ==
  [][\A t \in pend.tasks :
       (t.pc = "evaluate" /\ t \notin pend'.tasks /\ hist'.nFail # hist.nFail) =>
         /\ store'.questions[t.idx + 1].answer = t.answer
         /\ store'.currentIndex = t.idx + 1]_vars

\* the answer to the first question was sent, the request was rejected, and the
\* question is neither committed nor passed
AnswerLostToNetwork ==
  /\ hist.nFail = 1
  /\ hist.nSubmits = 1
  /\ pend.tasks = {}
  /\ store.status = "in_progress"
  /\ store.currentIndex = 0
  /\ store.questions[1].answer = NoStr
  /\ \E i \in 1..Len(store.messages) : store.messages[i].role = "user"

\* C25: a session that has entered in_progress eventually is completed with
\* currentIndex = 6
EventuallyCompleted ==
  (store.status = "in_progress") ~> (store.status = "completed" /\ store.currentIndex = NumQuestions)

\* a question was committed and the next one will never be asked: no timer runs,
\* nothing is spoken, no timeout and no request is pending
StuckBetweenQuestions ==
  /\ store.status = "in_progress"
  /\ store.currentIndex \in 1..(NumQuestions - 1)
  /\ store.startedAt = Null
  /\ env.utter = <<>>
  /\ ~env.recActive
  /\ pend.timeouts = {}
  /\ pend.tasks = {}
  /\ pend.starts = {}
  /\ pend.commits = {}

\* C26: an evaluation request for an unanswered question (a submission without
\* transcript, by hand or by timeout) is answered with score 0 and the fixed
\* no-answer feedback, which is what the question then holds
NoAnswerScoresZero ==
  [][\A t \in pend.tasks :
       (/\ t.pc = "evaluate"
        /\ t \notin pend'.tasks
        /\ hist'.nFail = hist.nFail
        /\ Trim(t.answer) = "" \/ t.answer = NoAnswerText)
       => /\ store'.questions[t.idx + 1].score = 0
          /\ store'.questions[t.idx + 1].feedback = "No answer provided."]_vars

\* the first question timed out without transcript and holds the evaluator's score
TimeoutScoredByModel ==
  /\ store.currentIndex = 1
  /\ store.questions[1].answer = NoAnswerText
  /\ store.questions[1].score = 7
  /\ store.questions[1].feedback = "Good answer."

TwoPerDifficulty(questions) ==
  /\ Len(questions) = NumQuestions
  /\ \A d \in {"easy", "medium", "hard"} :
       Cardinality({ i \in DOMAIN questions : questions[i] = d }) = 2

\* C27: a successful GenerateQuestions response, from a model attempt or from the
\* static fallback, holds six questions: two easy, two medium and two hard
GeneratedTwoPerDifficulty ==
  \A k \in DOMAIN pend.route :
    (pend.route[k].api = "generate-questions" /\ pend.route[k].status = 200)
    => TwoPerDifficulty(pend.route[k].questions)

\* the first model attempt answered with six easy questions
ModelAnsweredSixEasy ==
  /\ pend.route # <<>>
  /\ pend.route[1].api = "generate-questions"
  /\ pend.route[1].status = 200
  /\ pend.route[1].from = ModelTiers[1]
  /\ pend.route[1].questions = <<"easy", "easy", "easy", "easy", "easy", "easy">>

\* C28: generation tries its tiers one after another, the next attempt only after the
\* one before failed and on a smaller tier than the one before; when every attempt
\* failed the answer is the fallback set of six (two per difficulty), not an error
RetriesOnSmallerTier ==
  [][\A k \in DOMAIN pend.route :
       (pend.route[k].api = "generate-questions" /\ pend.route[k].status = 0 /\ pend'.route # pend.route)
       => LET before == pend.route[k]
              after == pend'.route[k]
          IN \/ /\ after.status = 0
                /\ after.attempt = before.attempt + 1
                /\ TierSize(ModelTiers[after.attempt]) < TierSize(ModelTiers[before.attempt])
             \/ /\ after.status = 200
                /\ after.from = ModelTiers[before.attempt]
             \/ /\ after.status = 200
                /\ before.attempt = Len(ModelTiers)
                /\ after.from = "fallback"
                /\ TwoPerDifficulty(after.questions)]_vars

\* the first attempt failed and the second one, on the standard model, is under way
SecondAttemptOnLargerTier ==
  /\ pend.route # <<>>
  /\ pend.route[1].api = "generate-questions"
  /\ pend.route[1].status = 0
  /\ pend.route[1].attempt = 2
  /\ TierSize(ModelTiers[2]) > TierSize(ModelTiers[1])

\* C29: every score returned by Evaluate and every score stored on a question is an
\* integer from 0 to 10, whatever number the model or the response carries
ScoresAreIntegers ==
  /\ \A k \in DOMAIN pend.route :
       (pend.route[k].api = "evaluate" /\ pend.route[k].status \in 200..299)
       => /\ pend.route[k].score % 2 = 0
          /\ pend.route[k].score \div 2 \in 0..10
  /\ \A i \in DOMAIN store.questions :
       store.questions[i].score = NoScore \/ store.questions[i].score \in 0..10

\* Evaluate answered 200 with the score 7.5 of the model
HalfPointReturned ==
  /\ pend.route # <<>>
  /\ pend.route[1].api = "evaluate"
  /\ pend.route[1].status = 200
  /\ pend.route[1].score = 15

\* difficulty === "easy" ? 20 : difficulty === "medium" ? 60 : 120
DifficultyDuration(difficulty) ==
  IF difficulty = "easy" THEN 20 ELSE IF difficulty = "medium" THEN 60 ELSE 120

\* C30: whenever the timer is started for the question at index i, durationSec is the
\* duration of the difficulty stored on questions[i]: 20 easy, 60 medium, 120 hard
TimerOfStoredDifficulty ==
  [][(/\ store'.startedAt # Null
      /\ store.startedAt = Null \/ hist'.timerFor # hist.timerFor
      /\ store'.currentIndex < NumQuestions)
     => store'.durationSec =
          DifficultyDuration(store'.questions[store'.currentIndex + 1].difficulty)]_vars

\* the first question is stored as hard and its timer runs for the 20 s of an easy one
HardQuestionOnEasyTimer ==
  /\ store.status = "in_progress"
  /\ store.currentIndex = 0
  /\ store.startedAt # Null
  /\ store.questions[1].difficulty = "hard"
  /\ store.durationSec = 20

\* C31: the timer never runs against a broken question: with status in_progress and
\* startedAt set, the current question has a text; and when question generation
\* fails, the candidate is told so and no timer is started
TimerHasQuestion ==
  /\ [](store.status = "in_progress" /\ store.startedAt # Null
          => /\ store.currentIndex < Len(store.questions)
             /\ Truthy(store.questions[store.currentIndex + 1].text))
  /\ [][hist'.nFail # hist.nFail /\ pend'.starts # pend.starts
          => /\ store'.startedAt = store.startedAt
             /\ Len(store'.messages) = Len(store.messages) + 1
             /\ store'.messages[Len(store'.messages)].role = "system"]_vars

\* after a reset the timer of the next question is started on the empty question list
TimerOnEmptyQuestion ==
  /\ store.status = "in_progress"
  /\ store.startedAt # Null
  /\ store.currentIndex = 0
  /\ store.questions[1].text = ""

\* C32: within one session generation is requested and applied at most once: no two
\* requests of a session are in flight together, and no response is applied (questions
\* set, startQuestion called) while the interview of that session is under way
StartedOnce ==
  /\ [](\A a, b \in pend.starts : a.ses = b.ses => a = b)
  /\ [][\A inv \in pend.starts :
          (inv \notin pend'.starts /\ hist'.nFail = hist.nFail /\ inv.ses = hist.session
           /\ hist'.session = hist.session /\ hist'.nReloads = hist.nReloads)
          => store.status # "in_progress"]_vars

\* a second Start was pressed while the first generation request is awaited
TwoGenerationsInFlight ==
  \E a, b \in pend.starts : a # b /\ a.ses = hist.session /\ b.ses = hist.session

\* C33: when the session is finalized after the sixth question, the commit of every
\* result has been applied, and the archived questions hold the committed answer,
\* score and feedback of all six
ArchiveHoldsResults ==
  [][(store'.lastSession # store.lastSession /\ store'.lastSession # <<>>)
     => /\ pend.commits = {}
        /\ \A i \in 1..NumQuestions :
             /\ store.questions[i].answer # NoStr
             /\ store'.lastSession[1].questions[i].answer = store.questions[i].answer
             /\ store'.lastSession[1].questions[i].score = store.questions[i].score
             /\ store'.lastSession[1].questions[i].feedback = store.questions[i].feedback]_vars

\* the session is archived while the sixth result still waits for its audio
ArchivedBeforeSixthCommit ==
  /\ store.lastSession # <<>>
  /\ \E c \in pend.commits :
       /\ c.idx = NumQuestions - 1
       /\ store.lastSession[1].questions[NumQuestions].feedback # c.patch.feedback

\* the score committed for the question at index i - 1: the stored one, or the one of
\* a commit that waits for its audio
CommittedScore(i) ==
  IF store.questions[i].score # NoScore THEN store.questions[i].score
  ELSE IF \E c \in pend.commits : c.idx = i - 1
    THEN (CHOOSE c \in pend.commits : c.idx = i - 1).patch.score
  ELSE 0

RECURSIVE SumCommitted(_)
SumCommitted(i) == IF i = 0 THEN 0 ELSE CommittedScore(i) + SumCommitted(i - 1)

\* C34: the final score passed to finalizeSession is the average of the six scores
\* committed for questions 0..5, rounded to the nearest integer
FinalScoreIsAverage ==
  [][(store'.lastSession # store.lastSession /\ store'.lastSession # <<>>)
     => 2 * NumQuestions * store'.lastSession[1].finalScore
          \in (2 * SumCommitted(NumQuestions) - NumQuestions + 1)
              ..(2 * SumCommitted(NumQuestions) + NumQuestions)]_vars

\* the sixth question was submitted twice: the session is archived with the final score
\* of the submission that scored 7 while the question holds the 0 of the other
FinalScoreOfOtherSubmission ==
  /\ store.lastSession # <<>>
  /\ store.lastSession[1].finalScore = 7
  /\ store.questions[NumQuestions].score = 0
  /\ \A i \in 1..(NumQuestions - 1) : store.questions[i].score = 7

\* C35: once the sixth question is committed the session is finalized whether or not
\* the summary service succeeds: when the summary request ends, finalizeSession has
\* archived the session, with the fixed completion message if the request failed
FinalizedWithoutSummary ==
  [][\A t \in pend.tasks :
       (t.pc = "summary" /\ t \notin pend'.tasks)
       => /\ store'.lastSession # <<>>
          /\ hist'.nFail # hist.nFail => store'.lastSession[1].summary = DefaultSummary]_vars

\* the summary request was rejected: all six questions are committed, no request is
\* under way and no session is archived
CompletedNotArchived ==
  /\ store.status = "completed"
  /\ store.currentIndex = NumQuestions
  /\ pend.tasks = {}
  /\ hist.nFail > 0
  /\ store.lastSession = <<>>

\* C36: on every submission path the answer appended to the transcript and committed
\* for the question is never the empty string: without a captured transcript it is
\* the literal fallback answer text
AnswerNeverEmpty ==
  /\ \A k \in DOMAIN store.messages :
       store.messages[k].role = "user" => store.messages[k].text # ""
  /\ \A t \in pend.tasks : t.answer # ""
  /\ \A i \in DOMAIN store.questions : store.questions[i].answer # ""

\* a typed answer was submitted by hand: the empty transcript is in the messages and
\* is the answer committed for the first question
EmptyAnswerCommitted ==
  /\ store.questions[1].answer = ""
  /\ \E k \in DOMAIN store.messages :
       store.messages[k].role = "user" /\ store.messages[k].text = ""

\* C37: the answer of a submission is the text accumulated for the question up to
\* that moment: on timer expiry the transcript recognised so far (the fallback text
\* if there is none), on manual submit the text the candidate entered
AnswerIsCurrentText ==
  [][\A t \in pend'.tasks \ pend.tasks :
       t.pc = "evaluate"
       => t.answer = (IF ~t.auto THEN ui.userInput
                      ELSE IF Truthy(ui.transcript) THEN ui.transcript ELSE NoAnswerText)]_vars

\* speech was recognised while the second question was listened to, and its timeout
\* submitted the fallback text
RecognisedAnswerLost ==
  /\ hist.nHeard = 1
  /\ hist.nUser = 0
  /\ hist.nSubmits = 2
  /\ \E t \in pend.tasks : t.idx = 1 /\ t.auto /\ t.answer = NoAnswerText

\* C38: resetting the session (the Reset control or the modal's Start Over) stops
\* the speech in progress, the speech recognition and the audio capture and
\* discards the partial transcript: right after the reset nothing is spoken,
\* no recognition or recording is active and the accumulated transcript is empty
ResetStopsMedia ==
  [][hist'.session # hist.session =>
       /\ env'.utter = <<>>
       /\ ~env'.recActive
       /\ env'.recorder # "recording"
       /\ ~ui'.recording
       /\ ui'.transcript = ""]_vars

\* the session was reset while a question was listened to: the store is idle,
\* and the recognition and the recorder are still running
ListeningAfterReset ==
  /\ hist.session > 1
  /\ store.status = "idle"
  /\ store.messages = <<>>
  /\ env.recActive
  /\ env.recorder = "recording"

\* C39: within one session the transcript is append-only: every operation of
\* the store other than resetSession leaves the messages it finds unchanged and
\* in the same order, and pushMessage adds exactly its one message at the end
TranscriptAppendOnly ==
  [][hist'.nOps # hist.nOps /\ ~Called("resetSession") =>
       IF Called("pushMessage")
         THEN /\ Len(store'.messages) = Len(store.messages) + 1
              /\ SubSeq(store'.messages, 1, Len(store.messages)) = store.messages
              /\ store'.messages[Len(store'.messages)] = hist'.last.arg[1]
         ELSE store'.messages = store.messages]_vars

\* pushMessage has just put a user message after an assistant message
UserMessageAfterAssistant ==
  /\ hist.last.op = "pushMessage"
  /\ Len(store.messages) >= 2
  /\ store.messages[Len(store.messages) - 1].role = "assistant"
  /\ store.messages[Len(store.messages)].role = "user"

\* C40: in every reachable state the question list has exactly six entries,
\* whatever the number of items of the generator's response, so that the
\* completion test of completeQuestion compares idx + 1 with six
SixQuestions == Len(store.questions) = NumQuestions

\* a response of seven items was applied and the first answer committed: the
\* list has seven entries and the interview goes on
SevenQuestions ==
  /\ Len(store.questions) = NumQuestions + 1
  /\ store.status = "in_progress"
  /\ store.currentIndex = 1
  /\ Truthy(store.questions[1].answer)

\* C10: resetSession yields the initial live state and leaves the archived snapshot as it was
ResetYieldsInitial ==
  [][hist'.session # hist.session =>
       /\ store'.candidate = [name |-> "", email |-> "", phone |-> ""]
       /\ store'.status = "idle"
       /\ store'.messages = <<>>
       /\ Len(store'.questions) = 6
       /\ \A i \in 1..6 :
            /\ store'.questions[i].text = ""
            /\ store'.questions[i].difficulty = Pattern[i]
            /\ store'.questions[i].answer = NoStr
            /\ store'.questions[i].score = NoScore
            /\ store'.questions[i].feedback = NoStr
       /\ store'.currentIndex = 0
       /\ store'.startedAt = Null
       /\ store'.durationSec = Null
       /\ store'.lastSession = store.lastSession]_vars

\* a session was reset while an archived snapshot with a transcript existed
ResetWithArchive ==
  /\ hist.session > 1
  /\ store.lastSession # <<>>
  /\ store.lastSession[1].transcript # <<>>
  /\ store.messages = <<>>

====
